---- MODULE Spec2Model ----
(***************************************************************************)
(* Model of compile.py, the DRC attendance dashboard: one Streamlit script *)
(* that loads three spreadsheets, cleans them, and renders one of four     *)
(* pages.  A run of the script is a behaviour; every top-level section of  *)
(* the script is one action.                                               *)
(*                                                                         *)
(* Text is a sequence of symbols.  A symbol is one whitespace " ", one     *)
(* digit, the sign "-", or a maximal run of other characters ("Asha",      *)
(* "nan", "Name").  Numbers are integers.                                  *)
(***************************************************************************)
EXTENDS Integers, Sequences, FiniteSets, TLC

VARIABLES pc, page_selection, raw_main, raw_monthly, df, df_monthly,
          messages, uncaught, selected_article, selected_month,
          filtered_df, filtered_monthly, present_absent, salary_trend,
          pie_df, raw_daily, parsed_daily, daily_df, date_range,
          selected_staff, cache, now, epoch

\* the st.cache_data stores, the wall clock, and what each cache epoch has seen
cache_vars == <<cache, now, epoch>>

vars == <<pc, page_selection, raw_main, raw_monthly, df, df_monthly,
          messages, uncaught, selected_article, selected_month,
          filtered_df, filtered_monthly, present_absent, salary_trend,
          pie_df, raw_daily, parsed_daily, daily_df, date_range,
          selected_staff, cache, now, epoch>>

(* ------------------------------ bounds --------------------------------- *)
MaxAnnualRows == 1
MaxMonthlyRows == 2
MaxDailyRows == 2
MaxBreakdownRows == 2
MaxCacheRows == 1
MaxTicks == 13

(* ------------------------------- text ---------------------------------- *)
Digits == <<"0", "1", "2", "3", "4", "5", "6", "7", "8", "9">>

IsDigit(c) == \E i \in 1..10 : Digits[i] = c

DigitVal(c) == (CHOOSE i \in 1..10 : Digits[i] = c) - 1

RECURSIVE lstrip(_)
lstrip(s) == IF s # <<>> /\ Head(s) = " " THEN lstrip(Tail(s)) ELSE s

RECURSIVE rstrip(_)
rstrip(s) ==
    IF s # <<>> /\ s[Len(s)] = " " THEN rstrip(SubSeq(s, 1, Len(s) - 1)) ELSE s

\* str.strip()
strip(s) == rstrip(lstrip(s))

RECURSIVE DigitsToInt(_)
DigitsToInt(s) ==
    IF s = <<>> THEN 0
    ELSE 10 * DigitsToInt(SubSeq(s, 1, Len(s) - 1)) + DigitVal(s[Len(s)])

AllDigits(s) == s # <<>> /\ \A i \in 1..Len(s) : IsDigit(s[i])

RECURSIVE NatToText(_)
NatToText(n) ==
    IF n < 10 THEN <<Digits[n + 1]>>
    ELSE NatToText(n \div 10) \o <<Digits[(n % 10) + 1]>>

\* str(n) of a Python int
IntToText(n) == IF n < 0 THEN <<"-">> \o NatToText(0 - n) ELSE NatToText(n)

(* ------------------------------ scalars -------------------------------- *)
Num(n) == [t |-> "num", n |-> n, s |-> <<>>]
Str(s) == [t |-> "str", n |-> 0, s |-> s]
NaN == [t |-> "nan", n |-> 0, s |-> <<>>]

\* the text pandas gives a missing value under astype(str)
NanText == <<"nan">>

\* the number a text denotes, NaN when it denotes none
ParseNumber(s) ==
    LET b == strip(s) IN
    IF AllDigits(b) THEN Num(DigitsToInt(b))
    ELSE IF b # <<>> /\ Head(b) = "-" /\ AllDigits(Tail(b))
         THEN Num(0 - DigitsToInt(Tail(b)))
         ELSE NaN

\* pd.to_numeric(x, errors='coerce') on one value
to_numeric(v) == IF v.t = "str" THEN ParseNumber(v.s) ELSE v

\* .fillna(k) on one value
fillna(v, k) == IF v.t = "nan" THEN Num(k) ELSE v

\* .astype(str) on one value
astype_str(v) ==
    IF v.t = "num" THEN Str(IntToText(v.n))
    ELSE IF v.t = "nan" THEN Str(NanText) ELSE v

\* .str.strip() on one value
str_strip(v) == Str(strip(v.s))

(* ------------------------------ tables --------------------------------- *)
COL_Name == <<"Name">>
COL_Month == <<"Month">>
COL_TransferCase == <<"Transfer case">>
COL_Defaulter == <<"Defaulter">>
COL_SumPayable == <<"SUM of Payable Days">>
COL_UpdatedAbsent == <<"Updated Absent Days">>
COL_Extension == <<"Extension Days">>
COL_Year == <<"Year">>
COL_Payable == <<"Payable Days">>
COL_Absent == <<"Absent Days">>
COL_DaysInMonth == <<"Days in Month">>
COL_Salary == <<"Salary">>
COL_Date == <<"Date">>
COL_Staff == <<"Staff Name">>
COL_Hours == <<"Hours Worked">>
COL_Attendance == <<"Attendance">>

DataFrame(cols, rows) == [kind |-> "DataFrame", columns |-> cols, rows |-> rows]

\* pd.DataFrame() and pd.DataFrame([]): no columns, no rows
EmptyFrame == DataFrame({}, <<>>)

\* Python's None
NoneValue == [kind |-> "None", columns |-> {}, rows |-> <<>>]

\* an exception leaving the callee
Raised == [kind |-> "Raise", columns |-> {}, rows |-> <<>>]

\* df.empty
IsEmpty(d) == d.rows = <<>> \/ d.columns = {}

RECURSIVE SelectRows(_, _)
SelectRows(rows, keep) ==
    IF rows = <<>> THEN <<>>
    ELSE (IF keep[1] THEN <<Head(rows)>> ELSE <<>>)
         \o SelectRows(Tail(rows), Tail(keep))

\* df[mask], the boolean mask given per row position
Mask(d, mask) == DataFrame(d.columns, SelectRows(d.rows, mask))

\* df[col] = series, the series given per row position
SetColumn(d, col, series) ==
    DataFrame(d.columns,
              [i \in 1..Len(d.rows) |->
                  [c \in d.columns |-> IF c = col THEN series[i] ELSE d.rows[i][c]]])

RECURSIVE SumSeq(_)
SumSeq(s) == IF s = <<>> THEN 0 ELSE Head(s) + SumSeq(Tail(s))

\* df[col].sum() of a numeric column
ColumnSum(d, col) == SumSeq([i \in 1..Len(d.rows) |-> d.rows[i][col].n])

(* --------------------------- text ordering ----------------------------- *)
\* the symbols of the model in Python's string order (code points)
SymbolOrder ==
    <<" ", "-", "0", "1", "2", "3", "4", "5", "6", "7", "8", "9", ":",
      "All", "Asha", "Feb", "Jan", "Ravi", "abc", "nan">>

Rank(c) == CHOOSE i \in 1..Len(SymbolOrder) : SymbolOrder[i] = c

\* a < b on Python strings
RECURSIVE TextLess(_, _)
TextLess(a, b) ==
    IF b = <<>> THEN FALSE
    ELSE IF a = <<>> THEN TRUE
    ELSE IF Head(a) = Head(b) THEN TextLess(Tail(a), Tail(b))
    ELSE Rank(Head(a)) < Rank(Head(b))

\* a < b on Python tuples of strings
RECURSIVE KeyLess(_, _)
KeyLess(a, b) ==
    IF b = <<>> THEN FALSE
    ELSE IF a = <<>> THEN TRUE
    ELSE IF Head(a) = Head(b) THEN KeyLess(Tail(a), Tail(b))
    ELSE TextLess(Head(a), Head(b))

\* sorted(keys): ascending, by repeatedly taking the least key
RECURSIVE SortKeys(_)
SortKeys(S) ==
    IF S = {} THEN <<>>
    ELSE LET m == CHOOSE x \in S : \A y \in S \ {x} : KeyLess(x, y)
         IN <<m>> \o SortKeys(S \ {m})

(* ------------------------------ loading -------------------------------- *)
\* df.columns = [col.strip() for col in df.columns]
StripColumns(d) ==
    LET cols == {strip(c) : c \in d.columns} IN
    DataFrame(cols,
              [i \in 1..Len(d.rows) |->
                  [c \in cols |->
                      d.rows[i][CHOOSE o \in d.columns : strip(o) = c]]])

Message(level, about) == [level |-> level, about |-> about]

\* load_sheet_data: fetched is the table get_all_records gave, or Raised when
\* open_by_key / worksheet / get_all_records raised
load_sheet_data(fetched, worksheet_name) ==
    IF fetched.kind = "Raise"
    THEN [value |-> EmptyFrame, shown |-> {Message("error", worksheet_name)}]
    ELSE IF IsEmpty(fetched)
    THEN [value |-> fetched, shown |-> {Message("warning", worksheet_name)}]
    ELSE [value |-> StripColumns(fetched), shown |-> {}]

\* load_daily_data: as load_sheet_data, without the column clean-up
load_daily_data(fetched) ==
    IF fetched.kind = "Raise"
    THEN [value |-> EmptyFrame, shown |-> {Message("error", "daily data")}]
    ELSE [value |-> fetched, shown |-> {}]

(* ------------------------------ cleaning ------------------------------- *)
MainNumericCols == {COL_SumPayable, COL_UpdatedAbsent, COL_Extension, COL_Year}
MainTextCols == <<COL_Name, COL_TransferCase>>
MonthlyNumericCols == {COL_Payable, COL_Absent, COL_DaysInMonth, COL_Salary}

\* pd.to_numeric(df[col], errors='coerce').fillna(0) on one value
CoerceNumeric(v) == fillna(to_numeric(v), 0)

\* for col in numeric_cols: if col in df.columns: df[col] = ...
RECURSIVE ConvertNumeric(_, _)
ConvertNumeric(d, cols) ==
    IF cols = {} THEN d
    ELSE LET c == CHOOSE x \in cols : TRUE
             rest == ConvertNumeric(d, cols \ {c})
         IN IF c \in d.columns
            THEN SetColumn(rest, c, [i \in 1..Len(rest.rows) |->
                                        CoerceNumeric(rest.rows[i][c])])
            ELSE rest

\* df[col] = df[col].astype(str).str.strip()
StripText(v) == str_strip(astype_str(v))

\* df[col] = df[col].astype(str).str.strip() on the column
StripTextColumn(d, col) ==
    SetColumn(d, col, [i \in 1..Len(d.rows) |-> StripText(d.rows[i][col])])

\* df = df[df[col] != 'nan']
DropPlaceholder(d, col) ==
    Mask(d, [i \in 1..Len(d.rows) |-> d.rows[i][col].s # NanText])

\* one text column of the cleaning loops
CleanTextColumn(d, col) ==
    IF col \in d.columns THEN DropPlaceholder(StripTextColumn(d, col), col)
    ELSE d

\* the table clean_main_data has built when it reaches its last line
main_cleaned(d) ==
    CleanTextColumn(
        CleanTextColumn(ConvertNumeric(d, MainNumericCols), MainTextCols[1]),
        MainTextCols[2])

\* a function body that ends without a return statement yields None
FallOffEnd(local) == NoneValue

\* clean_main_data(df); df.empty on None raises AttributeError
clean_main_data(d) ==
    IF d.kind # "DataFrame" THEN Raised
    ELSE IF IsEmpty(d) THEN d
    ELSE FallOffEnd(main_cleaned(d))

\* clean_monthly_data(df)
clean_monthly_data(d) ==
    IF d.kind # "DataFrame" THEN Raised
    ELSE IF IsEmpty(d) THEN d
    ELSE LET named == CleanTextColumn(ConvertNumeric(d, MonthlyNumericCols), COL_Name)
         IN IF COL_Month \in named.columns
            THEN StripTextColumn(named, COL_Month)
            ELSE named

(* ------------------------------ filtering ------------------------------ *)
\* the sentinel of the select boxes
All == <<"All">>

\* df[col] can be evaluated
Subscriptable(d, col) == d.kind = "DataFrame" /\ col \in d.columns

\* the exception df[col] raises when it cannot be evaluated
SubscriptError(d) == IF d.kind = "None" THEN "TypeError" ELSE "KeyError"

\* df[col].unique().tolist(), as texts
Unique(d, col) == {d.rows[i][col].s : i \in 1..Len(d.rows)}

\* sorted(texts)
Sorted(S) ==
    LET k == SortKeys({<<x>> : x \in S}) IN [i \in 1..Len(k) |-> k[i][1]]

\* ["All"] + sorted(df[col].unique().tolist())
SelectList(d, col) == <<All>> \o Sorted(Unique(d, col))

\* df[df[col] == selected]
FilterEq(d, col, selected) ==
    Mask(d, [i \in 1..Len(d.rows) |-> d.rows[i][col].s = selected])

\* if selected == "All": df else: df[df[col] == selected]
FilterOrAll(d, col, selected) ==
    IF selected = All THEN d ELSE FilterEq(d, col, selected)

(* ----------------------------- aggregation ----------------------------- *)
\* the group key of a row
KeyOf(r, keycols) == [k \in 1..Len(keycols) |-> r[keycols[k]].s]

GroupKeys(d, keycols) == {KeyOf(d.rows[i], keycols) : i \in 1..Len(d.rows)}

\* the order in which groupby (sort=True, the default) emits its groups
GroupOrder(d, keycols) == SortKeys(GroupKeys(d, keycols))

\* df.groupby(keycols)[valcols].sum().reset_index()
groupby_sum(d, keycols, valcols) ==
    LET order == GroupOrder(d, keycols) IN
    [g \in 1..Len(order) |->
        [key |-> order[g],
         sums |-> [v \in 1..Len(valcols) |->
                     ColumnSum(Mask(d, [i \in 1..Len(d.rows) |->
                                                 KeyOf(d.rows[i], keycols) = order[g]]),
                               valcols[v])]]]

\* the breakdown without its clip: every count surfaces as computed
clip_dropped(x) == x

\* Series.clip(lower=0) on one value
clip_lower0(x) == IF x < 0 THEN 0 ELSE x

NotComputed == [computed |-> FALSE, rows |-> <<>>]
Computed(rows) == [computed |-> TRUE, rows |-> rows]

\* pie_data and pie_df of the single-month attendance breakdown
pie_breakdown(f) ==
    LET payable == ColumnSum(f, COL_Payable)
        absent == ColumnSum(f, COL_Absent)
        other == ColumnSum(f, COL_DaysInMonth) - (payable + absent)
    IN Computed(<<[Category |-> "Payable Days", Count |-> clip_lower0(payable)],
                  [Category |-> "Absent Days", Count |-> clip_lower0(absent)],
                  [Category |-> "Other Days", Count |-> clip_lower0(other)]>>)

(* ------------------------------- inputs -------------------------------- *)
T(name) == Str(<<name>>)
Padded(name) == Str(<<" ", name, " ">>)

SeqsUpTo(S, n) == UNION {[1..k -> S] : k \in 0..n}

\* pd.DataFrame(get_all_records()): no record gives a frame without columns
FrameOf(cols, rows) == IF rows = <<>> THEN EmptyFrame ELSE DataFrame(cols, rows)

\* the same sheet with one header cell padded with blanks
PadHeader(d, col) ==
    LET padded == <<" ">> \o col \o <<" ">>
        cols == (d.columns \ {col}) \cup {padded}
    IN DataFrame(cols,
                 [i \in 1..Len(d.rows) |->
                     [c \in cols |-> IF c = padded THEN d.rows[i][col]
                                     ELSE d.rows[i][c]]])

AnnualColumns == {COL_Name, COL_SumPayable, COL_UpdatedAbsent, COL_Defaulter}

AnnualRow(name, payable, absent, defaulter) ==
    [c \in AnnualColumns |->
        IF c = COL_Name THEN name
        ELSE IF c = COL_SumPayable THEN payable
        ELSE IF c = COL_UpdatedAbsent THEN absent
        ELSE defaulter]

AnnualRows ==
    { AnnualRow(Padded("Asha"), Str(<<"2", "0">>), T("abc"), T("Defaulter")),
      AnnualRow(T("Ravi"), Num(5), Num(0 - 2), T("Non-Defaulter")),
      AnnualRow(Str(<<>>), Num(1), Num(1), T("Defaulter")) }

AnnualSheets ==
    LET plain == {FrameOf(AnnualColumns, r) : r \in SeqsUpTo(AnnualRows, MaxAnnualRows)}
    IN plain \cup {PadHeader(d, COL_Name) : d \in plain \ {EmptyFrame}}

MonthlyColumns ==
    {COL_Name, COL_Month, COL_Payable, COL_Absent, COL_DaysInMonth, COL_Salary}

MonthlyRow(name, month, payable, absent, days, salary) ==
    [c \in MonthlyColumns |->
        IF c = COL_Name THEN name
        ELSE IF c = COL_Month THEN month
        ELSE IF c = COL_Payable THEN payable
        ELSE IF c = COL_Absent THEN absent
        ELSE IF c = COL_DaysInMonth THEN days
        ELSE salary]

MonthlyRows ==
    { MonthlyRow(Padded("Ravi"), T("Jan"), Str(<<"2", "0">>), Num(15), Num(30), Num(100)),
      MonthlyRow(T("Asha"), Padded("Feb"), Num(10), Num(0 - 3), Num(28), T("abc")),
      MonthlyRow(Str(<<>>), T("Jan"), Num(1), Num(0), Num(31), Num(50)),
      MonthlyRow(Padded("nan"), T("Feb"), Num(2), Num(2), Num(28), Num(70)) }

MonthlySheets ==
    {FrameOf(MonthlyColumns, r) : r \in SeqsUpTo(MonthlyRows, MaxMonthlyRows)}

Pages == {"Main Dashboard", "Monthly Data", "Individual Dashboard", "Daily Dashboard"}

NotSelected == <<"?">>

(* ------------------------------ caching -------------------------------- *)
\* @st.cache_data(ttl=3600) of load_sheet_data, in seconds
MAIN_TTL == 3600

\* @st.cache_data(ttl=600) of load_daily_data, in seconds
DAILY_TTL == 600

\* the wall clock advances in steps of five minutes
Seconds(ticks) == ticks * 300

\* the cache keys: the cached function and its hashed arguments (_gc is not hashed)
KEY_Main == <<"load_sheet_data", "MAIN_SHEET_KEY", "Main">>
KEY_Monthly == <<"load_sheet_data", "MAIN_SHEET_KEY", "pdftosheet">>
KEY_Daily == <<"load_daily_data", "DAILY_SHEET_KEY", "selected_sheet">>
CacheKeys == {KEY_Main, KEY_Monthly, KEY_Daily}

\* what a loader returns: its table and the messages it showed
NoResult == [value |-> NoneValue, shown |-> {}]

NoEntry == [present |-> FALSE, stored_at |-> 0, result |-> NoResult]

\* a store that drops the result of a failed fetch instead of keeping it
store_unless_failed(result, t) ==
    IF \E m \in result.shown : m.level = "error" THEN NoEntry
    ELSE [present |-> TRUE, stored_at |-> t, result |-> result]

\* the entry st.cache_data writes for a value the function returned at time t
cache_store(result, t) == [present |-> TRUE, stored_at |-> t, result |-> result]

\* the entry is there and younger than its ttl
IsFresh(entry, ttl, t) == entry.present /\ Seconds(t - entry.stored_at) < ttl

\* a call of a cached function at time t; computed is what its body returns
\* when it runs
cached_call(entry, ttl, t, computed) ==
    IF IsFresh(entry, ttl, t)
    THEN [entry |-> entry, result |-> entry.result, ran |-> FALSE]
    ELSE [entry |-> cache_store(computed, t), result |-> computed, ran |-> TRUE]

\* no body of a cached function has run yet
NoEpoch == [start |-> 0, fetches |-> 0, result |-> NoResult]

\* the epoch record of a key after its function body ran at time t
EpochAfterFetch(e, ttl, t, computed) ==
    IF e.fetches > 0 /\ Seconds(t - e.start) < ttl
    THEN [e EXCEPT !.fetches = e.fetches + 1]
    ELSE [start |-> t, fetches |-> 1, result |-> computed]

ColdCache ==
    /\ cache = [k \in CacheKeys |-> NoEntry]
    /\ now = 0
    /\ epoch = [k \in CacheKeys |-> NoEpoch]

(* ------------------------------ the script ----------------------------- *)
Init ==
    /\ pc = "load_main"
    /\ page_selection = "Main Dashboard"
    /\ raw_main = NoneValue
    /\ raw_monthly = NoneValue
    /\ df = NoneValue
    /\ df_monthly = NoneValue
    /\ messages = {}
    /\ uncaught = ""
    /\ selected_article = NotSelected
    /\ selected_month = NotSelected
    /\ filtered_df = NoneValue
    /\ filtered_monthly = NoneValue
    /\ present_absent = NotComputed
    /\ salary_trend = NotComputed
    /\ pie_df = NotComputed
    /\ raw_daily = NoneValue
    /\ parsed_daily = NoneValue
    /\ daily_df = NoneValue
    /\ date_range = <<>>
    /\ selected_staff = NotSelected
    /\ ColdCache

\* an exception nothing catches ends the script run
Crash(e) == pc' = "crashed" /\ uncaught' = e

\* df = load_sheet_data(gc, MAIN_SHEET_KEY, "Main")
LoadMain ==
    /\ pc = "load_main"
    /\ \E fetched \in AnnualSheets \cup {Raised} :
         /\ raw_main' = fetched
         /\ df' = load_sheet_data(fetched, "Main").value
         /\ messages' = messages \cup load_sheet_data(fetched, "Main").shown
    /\ pc' = "load_monthly"
    /\ UNCHANGED <<page_selection, raw_monthly, df_monthly, uncaught,
                   selected_article, selected_month, filtered_df,
                   filtered_monthly, present_absent, salary_trend, pie_df,
                   raw_daily, parsed_daily, daily_df, date_range, selected_staff>>
    /\ UNCHANGED cache_vars

\* df_monthly = load_sheet_data(gc, MAIN_SHEET_KEY, "pdftosheet")
LoadMonthly ==
    /\ pc = "load_monthly"
    /\ \E fetched \in MonthlySheets \cup {Raised} :
         /\ raw_monthly' = fetched
         /\ df_monthly' = load_sheet_data(fetched, "pdftosheet").value
         /\ messages' = messages \cup load_sheet_data(fetched, "pdftosheet").shown
    /\ pc' = "clean"
    /\ UNCHANGED <<page_selection, raw_main, df, uncaught,
                   selected_article, selected_month, filtered_df,
                   filtered_monthly, present_absent, salary_trend, pie_df,
                   raw_daily, parsed_daily, daily_df, date_range, selected_staff>>
    /\ UNCHANGED cache_vars

\* df = clean_main_data(df); df_monthly = clean_monthly_data(df_monthly)
ApplyCleaning ==
    /\ pc = "clean"
    /\ df' = clean_main_data(df)
    /\ df_monthly' = clean_monthly_data(df_monthly)
    /\ pc' = "navigate"
    /\ UNCHANGED <<page_selection, raw_main, raw_monthly, messages, uncaught,
                   selected_article, selected_month, filtered_df,
                   filtered_monthly, present_absent, salary_trend, pie_df,
                   raw_daily, parsed_daily, daily_df, date_range, selected_staff>>
    /\ UNCHANGED cache_vars

\* page_selection = st.sidebar.radio(...)
Navigate ==
    /\ pc = "navigate"
    /\ \E p \in Pages : page_selection' = p
    /\ pc' = "page"
    /\ UNCHANGED <<raw_main, raw_monthly, df, df_monthly, messages, uncaught,
                   selected_article, selected_month, filtered_df,
                   filtered_monthly, present_absent, salary_trend, pie_df,
                   raw_daily, parsed_daily, daily_df, date_range, selected_staff>>
    /\ UNCHANGED cache_vars

\* the annual columns the Main Dashboard reads outside safe_plot
MainPageColumns ==
    {COL_SumPayable, COL_UpdatedAbsent, COL_Defaulter, COL_TransferCase, COL_Extension}

\* Main Dashboard page
MainDashboard ==
    /\ pc = "page" /\ page_selection = "Main Dashboard"
    /\ IF ~Subscriptable(df, COL_Name)
       THEN /\ Crash(SubscriptError(df))
            /\ UNCHANGED <<selected_article, filtered_df, present_absent>>
       ELSE \E i \in 1..Len(SelectList(df, COL_Name)) :
              LET selected == SelectList(df, COL_Name)[i]
                  view == FilterOrAll(df, COL_Name, selected)
              IN /\ selected_article' = selected
                 /\ filtered_df' = view
                 /\ IF IsEmpty(view)
                    THEN /\ pc' = "debug"
                         /\ UNCHANGED <<uncaught, present_absent>>
                    ELSE IF ~(MainPageColumns \subseteq view.columns)
                    THEN Crash("KeyError") /\ UNCHANGED present_absent
                    ELSE /\ present_absent' =
                              Computed(groupby_sum(view, <<COL_Name>>,
                                           <<COL_SumPayable, COL_UpdatedAbsent>>))
                         /\ pc' = "debug"
                         /\ UNCHANGED uncaught
    /\ UNCHANGED <<page_selection, raw_main, raw_monthly, df, df_monthly,
                   messages, selected_month, filtered_monthly, salary_trend,
                   pie_df, raw_daily, parsed_daily, daily_df, date_range,
                   selected_staff>>
    /\ UNCHANGED cache_vars

\* the monthly columns the Monthly Data page reads outside safe_plot
MonthlyPageColumns == {COL_Salary, COL_Payable, COL_Absent, COL_Name, COL_Month}

\* Monthly Data page
MonthlyData ==
    /\ pc = "page" /\ page_selection = "Monthly Data"
    /\ IF ~Subscriptable(df_monthly, COL_Month)
       THEN /\ Crash(SubscriptError(df_monthly))
            /\ UNCHANGED <<selected_month, filtered_monthly, salary_trend>>
       ELSE \E i \in 1..Len(SelectList(df_monthly, COL_Month)) :
              LET selected == SelectList(df_monthly, COL_Month)[i]
                  view == FilterOrAll(df_monthly, COL_Month, selected)
              IN /\ selected_month' = selected
                 /\ filtered_monthly' = view
                 /\ IF IsEmpty(view)
                    THEN /\ pc' = "debug"
                         /\ UNCHANGED <<uncaught, salary_trend>>
                    ELSE IF ~(MonthlyPageColumns \subseteq view.columns)
                    THEN Crash("KeyError") /\ UNCHANGED salary_trend
                    ELSE /\ salary_trend' =
                              IF selected = All
                              THEN Computed(groupby_sum(df_monthly, <<COL_Month, COL_Name>>,
                                                        <<COL_Salary>>))
                              ELSE salary_trend
                         /\ pc' = "debug"
                         /\ UNCHANGED uncaught
    /\ UNCHANGED <<page_selection, raw_main, raw_monthly, df, df_monthly,
                   messages, selected_article, filtered_df, present_absent,
                   pie_df, raw_daily, parsed_daily, daily_df, date_range,
                   selected_staff>>
    /\ UNCHANGED cache_vars

\* the monthly view of the Individual Dashboard
individual_monthly(dm, article, month) ==
    LET byname == FilterOrAll(dm, COL_Name, article)
    IN IF month # All THEN FilterEq(byname, COL_Month, month) ELSE byname

\* the columns the single-month breakdown sums
BreakdownColumns == {COL_Payable, COL_Absent, COL_DaysInMonth}

\* Individual Dashboard page
IndividualDashboard ==
    /\ pc = "page" /\ page_selection = "Individual Dashboard"
    /\ IF ~Subscriptable(df, COL_Name)
       THEN /\ Crash(SubscriptError(df))
            /\ UNCHANGED <<selected_article, selected_month, filtered_df,
                           filtered_monthly, pie_df>>
       ELSE IF ~Subscriptable(df_monthly, COL_Month)
       THEN /\ Crash(SubscriptError(df_monthly))
            /\ UNCHANGED <<selected_article, selected_month, filtered_df,
                           filtered_monthly, pie_df>>
       ELSE \E i \in 1..Len(SelectList(df, COL_Name)),
               j \in 1..Len(SelectList(df_monthly, COL_Month)) :
              LET article == SelectList(df, COL_Name)[i]
                  month == SelectList(df_monthly, COL_Month)[j]
                  annual == FilterOrAll(df, COL_Name, article)
              IN /\ selected_article' = article
                 /\ selected_month' = month
                 /\ filtered_df' = annual
                 /\ IF article # All /\ COL_Name \notin df_monthly.columns
                    THEN Crash("KeyError") /\ UNCHANGED <<filtered_monthly, pie_df>>
                    ELSE LET view == individual_monthly(df_monthly, article, month) IN
                         /\ filtered_monthly' = view
                         /\ IF \/ /\ ~IsEmpty(annual) /\ article # All
                                  /\ ~({COL_SumPayable, COL_UpdatedAbsent, COL_Defaulter}
                                          \subseteq annual.columns)
                               \/ /\ ~IsEmpty(view) /\ month # All
                                  /\ ~(BreakdownColumns \subseteq view.columns)
                            THEN Crash("KeyError") /\ UNCHANGED pie_df
                            ELSE /\ pie_df' = IF ~IsEmpty(view) /\ month # All
                                              THEN pie_breakdown(view) ELSE pie_df
                                 /\ pc' = "debug"
                                 /\ UNCHANGED uncaught
    /\ UNCHANGED <<page_selection, raw_main, raw_monthly, df, df_monthly,
                   messages, present_absent, salary_trend, raw_daily,
                   parsed_daily, daily_df, date_range, selected_staff>>
    /\ UNCHANGED cache_vars

(* ------------------------------- dates --------------------------------- *)
MinutesPerDay == 1440

Timestamp(n) == [t |-> "ts", n |-> n, s |-> <<>>]
NaT == [t |-> "nat", n |-> 0, s |-> <<>>]

DaysInMonthOf(m, y) ==
    IF m = 2 THEN (IF y % 4 = 0 /\ (y % 100 # 0 \/ y % 400 = 0) THEN 29 ELSE 28)
    ELSE IF m \in {4, 6, 9, 11} THEN 30 ELSE 31

\* a number that orders calendar days as the calendar does
DayNumber(d, m, y) == (y * 12 + (m - 1)) * 31 + (d - 1)

\* "DD-MM-YYYY" or "DD-MM-YYYY HH:MM", read day first
ParseDayFirst(s) ==
    LET b == strip(s)
        dated == /\ Len(b) \in {10, 16}
                 /\ b[3] = "-" /\ b[6] = "-"
                 /\ AllDigits(SubSeq(b, 1, 2)) /\ AllDigits(SubSeq(b, 4, 5))
                 /\ AllDigits(SubSeq(b, 7, 10))
        timed == Len(b) = 16
        clocked == timed => /\ b[11] = " " /\ b[14] = ":"
                            /\ AllDigits(SubSeq(b, 12, 13))
                            /\ AllDigits(SubSeq(b, 15, 16))
    IN IF ~(dated /\ clocked) THEN NaT
       ELSE LET d == DigitsToInt(SubSeq(b, 1, 2))
                m == DigitsToInt(SubSeq(b, 4, 5))
                y == DigitsToInt(SubSeq(b, 7, 10))
                hh == IF timed THEN DigitsToInt(SubSeq(b, 12, 13)) ELSE 0
                mi == IF timed THEN DigitsToInt(SubSeq(b, 15, 16)) ELSE 0
            IN IF m \in 1..12 /\ d \in 1..DaysInMonthOf(m, y) /\ hh < 24 /\ mi < 60
               THEN Timestamp(DayNumber(d, m, y) * MinutesPerDay + hh * 60 + mi)
               ELSE NaT

\* pd.to_datetime(x, errors='coerce', dayfirst=True) on one value
to_datetime(v) == IF v.t = "str" THEN ParseDayFirst(v.s) ELSE NaT

\* the calendar day of a timestamp, as st.date_input hands it back
DateOf(ts) == ts.n \div MinutesPerDay

\* pd.to_datetime(date): midnight of that day
DateToTimestamp(day) == Timestamp(day * MinutesPerDay)

\* daily_df['Date'] = pd.to_datetime(...); daily_df.dropna(subset=['Date'])
parse_dates(d) ==
    LET parsed == SetColumn(d, COL_Date,
                            [i \in 1..Len(d.rows) |-> to_datetime(d.rows[i][COL_Date])])
    IN Mask(parsed, [i \in 1..Len(parsed.rows) |-> parsed.rows[i][COL_Date].t # "nat"])

\* daily_df[(daily_df['Date'] >= start_date) & (daily_df['Date'] <= end_date)]
date_filter(d, range) ==
    IF Len(range) = 2
    THEN Mask(d, [i \in 1..Len(d.rows) |->
                     /\ d.rows[i][COL_Date].n >= DateToTimestamp(range[1]).n
                     /\ d.rows[i][COL_Date].n <= DateToTimestamp(range[2]).n])
    ELSE d

\* lambda x: float(x) if isinstance(x, (int, float)) else 0.0
hours_worked(v) == IF v.t = "num" THEN v ELSE Num(0)

\* what the date widget can hand back: one day, or two days in order
DateRanges(d) ==
    LET days == {DateOf(d.rows[i][COL_Date]) : i \in 1..Len(d.rows)}
    IN {<<a>> : a \in days} \cup {<<p[1], p[2]>> : p \in {q \in days \X days : q[1] <= q[2]}}

DailyColumns == {COL_Date, COL_Staff, COL_Hours}

DailyRow(date, staff, hours) ==
    [c \in DailyColumns |->
        IF c = COL_Date THEN date ELSE IF c = COL_Staff THEN staff ELSE hours]

DateText(d1, d2, m1, m2) == <<d1, d2, "-", m1, m2, "-", "2", "0", "2", "4">>

DailyRows ==
    { DailyRow(Str(DateText("3", "1", "0", "1")), T("Asha"), Str(<<"8">>)),
      DailyRow(Str(DateText("3", "1", "0", "1") \o <<" ", "1", "0", ":", "3", "0">>),
               T("Ravi"), Num(8)),
      DailyRow(Str(DateText("3", "0", "0", "1")), T("Asha"), Num(0 - 2)),
      DailyRow(Str(DateText("1", "3", "1", "3")), T("Ravi"), T("abc")) }

\* the same sheet without one of its columns
DropColumn(d, col) ==
    DataFrame(d.columns \ {col},
              [i \in 1..Len(d.rows) |-> [c \in d.columns \ {col} |-> d.rows[i][c]]])

DailySheets ==
    LET full == {FrameOf(DailyColumns, r) : r \in SeqsUpTo(DailyRows, MaxDailyRows)}
    IN full \cup {DropColumn(d, COL_Staff) : d \in {f \in full : Len(f.rows) = 1}}

\* Daily Dashboard page: open the daily spreadsheet, list and pick its sheets
DailyOpen ==
    /\ pc = "page" /\ page_selection = "Daily Dashboard"
    /\ \E opened \in BOOLEAN :
         IF opened THEN pc' = "daily_load" /\ UNCHANGED uncaught
         ELSE Crash("APIError")
    /\ UNCHANGED <<page_selection, raw_main, raw_monthly, df, df_monthly,
                   messages, selected_article, selected_month, filtered_df,
                   filtered_monthly, present_absent, salary_trend, pie_df,
                   raw_daily, parsed_daily, daily_df, date_range, selected_staff>>
    /\ UNCHANGED cache_vars

\* daily_df = load_daily_data(gc, DAILY_SHEET_KEY, selected_sheet)
DailyLoad ==
    /\ pc = "daily_load"
    /\ \E fetched \in DailySheets \cup {Raised} :
         /\ raw_daily' = fetched
         /\ daily_df' = load_daily_data(fetched).value
         /\ messages' = messages \cup load_daily_data(fetched).shown
    /\ pc' = "daily_process"
    /\ UNCHANGED <<page_selection, raw_main, raw_monthly, df, df_monthly,
                   uncaught, selected_article, selected_month, filtered_df,
                   filtered_monthly, present_absent, salary_trend, pie_df,
                   parsed_daily, date_range, selected_staff>>
    /\ UNCHANGED cache_vars

\* Process daily data: dates, date range, staff member, hours
DailyProcess ==
    /\ pc = "daily_process"
    /\ IF IsEmpty(daily_df)
       THEN /\ pc' = "daily_render"
            /\ UNCHANGED <<uncaught, parsed_daily, daily_df, date_range, selected_staff>>
       ELSE LET dated == COL_Date \in daily_df.columns
                parsed == IF dated THEN parse_dates(daily_df) ELSE daily_df
            IN /\ parsed_daily' = parsed
               /\ \E range \in (IF dated /\ ~IsEmpty(parsed) THEN DateRanges(parsed)
                                ELSE {<<>>}) :
                    LET ranged == IF dated THEN date_filter(parsed, range) ELSE parsed
                    IN /\ date_range' = range
                       /\ \/ /\ dated /\ IsEmpty(parsed)
                             \* min() of no dates is NaT, which the date widget may refuse
                             /\ Crash("StreamlitAPIException")
                             /\ UNCHANGED <<daily_df, selected_staff>>
                          \/ /\ COL_Staff \notin ranged.columns
                             /\ Crash("KeyError")
                             /\ UNCHANGED <<daily_df, selected_staff>>
                          \/ /\ COL_Staff \in ranged.columns
                             /\ \E i \in 1..Len(SelectList(ranged, COL_Staff)) :
                                  LET staff == SelectList(ranged, COL_Staff)[i]
                                      view == IF staff # All
                                              THEN FilterEq(ranged, COL_Staff, staff)
                                              ELSE ranged
                                  IN /\ selected_staff' = staff
                                     /\ daily_df' =
                                          IF COL_Hours \in view.columns
                                          THEN SetColumn(view, COL_Hours,
                                                   [k \in 1..Len(view.rows) |->
                                                      hours_worked(view.rows[k][COL_Hours])])
                                          ELSE view
                             /\ pc' = "daily_render"
                             /\ UNCHANGED uncaught
    /\ UNCHANGED <<page_selection, raw_main, raw_monthly, df, df_monthly,
                   messages, selected_article, selected_month, filtered_df,
                   filtered_monthly, present_absent, salary_trend, pie_df,
                   raw_daily>>
    /\ UNCHANGED cache_vars

\* Display KPIs, visualizations and the data table of the daily page
DailyRender ==
    /\ pc = "daily_render"
    /\ messages' = IF IsEmpty(daily_df)
                   THEN messages \cup {Message("warning", "No daily data")}
                   ELSE messages
    /\ pc' = "debug"
    /\ UNCHANGED <<page_selection, raw_main, raw_monthly, df, df_monthly,
                   uncaught, selected_article, selected_month, filtered_df,
                   filtered_monthly, present_absent, salary_trend, pie_df,
                   raw_daily, parsed_daily, daily_df, date_range, selected_staff>>
    /\ UNCHANGED cache_vars

\* Debug Info: df.shape when the box is ticked
DebugInfo ==
    /\ pc = "debug"
    /\ \E show \in BOOLEAN :
         IF show /\ df.kind = "None" THEN Crash("AttributeError")
         ELSE pc' = "done" /\ UNCHANGED uncaught
    /\ UNCHANGED <<page_selection, raw_main, raw_monthly, df, df_monthly,
                   messages, selected_article, selected_month, filtered_df,
                   filtered_monthly, present_absent, salary_trend, pie_df,
                   raw_daily, parsed_daily, daily_df, date_range, selected_staff>>
    /\ UNCHANGED cache_vars

\* a widget event runs the script again from its first line
Rerun ==
    /\ pc \in {"done", "crashed"}
    /\ pc' = "load_main"
    /\ page_selection' = "Main Dashboard"
    /\ raw_main' = NoneValue /\ raw_monthly' = NoneValue
    /\ df' = NoneValue /\ df_monthly' = NoneValue
    /\ messages' = {} /\ uncaught' = ""
    /\ selected_article' = NotSelected /\ selected_month' = NotSelected
    /\ filtered_df' = NoneValue /\ filtered_monthly' = NoneValue
    /\ present_absent' = NotComputed /\ salary_trend' = NotComputed
    /\ pie_df' = NotComputed
    /\ raw_daily' = NoneValue /\ parsed_daily' = NoneValue /\ daily_df' = NoneValue
    /\ date_range' = <<>> /\ selected_staff' = NotSelected
    /\ UNCHANGED cache_vars

Next ==
    \/ LoadMain
    \/ LoadMonthly
    \/ ApplyCleaning
    \/ Navigate
    \/ MainDashboard
    \/ MonthlyData
    \/ IndividualDashboard
    \/ DailyOpen
    \/ DailyLoad
    \/ DailyProcess
    \/ DailyRender
    \/ DebugInfo
    \/ Rerun

Spec == Init /\ [][Next]_vars

(* ---------------- the single-month breakdown on its own ---------------- *)
\* The Individual Dashboard's monthly filter and attendance breakdown, applied
\* to every cleaned monthly table and every selection of the two select boxes.
BreakdownSheets ==
    {FrameOf(MonthlyColumns, r) : r \in SeqsUpTo(MonthlyRows, MaxBreakdownRows)}

\* the names the article box can offer: they come from the annual sheet
ArticleChoices == {All, <<"Asha">>, <<"Ravi">>, <<>>}

InitBreakdown ==
    /\ pc = "individual_select"
    /\ page_selection = "Individual Dashboard"
    /\ raw_main = NoneValue
    /\ raw_monthly \in BreakdownSheets \ {EmptyFrame}
    /\ df = NoneValue
    /\ df_monthly = clean_monthly_data(load_sheet_data(raw_monthly, "pdftosheet").value)
    /\ messages = {}
    /\ uncaught = ""
    /\ selected_article = NotSelected
    /\ selected_month = NotSelected
    /\ filtered_df = NoneValue
    /\ filtered_monthly = NoneValue
    /\ present_absent = NotComputed
    /\ salary_trend = NotComputed
    /\ pie_df = NotComputed
    /\ raw_daily = NoneValue
    /\ parsed_daily = NoneValue
    /\ daily_df = NoneValue
    /\ date_range = <<>>
    /\ selected_staff = NotSelected
    /\ ColdCache

\* selected_article and selected_month of the Individual Dashboard
SelectIndividual ==
    /\ pc = "individual_select"
    /\ \E article \in ArticleChoices,
          j \in 1..Len(SelectList(df_monthly, COL_Month)) :
         /\ selected_article' = article
         /\ selected_month' = SelectList(df_monthly, COL_Month)[j]
    /\ pc' = "individual_filter"
    /\ UNCHANGED <<page_selection, raw_main, raw_monthly, df, df_monthly,
                   messages, uncaught, filtered_df, filtered_monthly,
                   present_absent, salary_trend, pie_df, raw_daily,
                   parsed_daily, daily_df, date_range, selected_staff>>
    /\ UNCHANGED cache_vars

\* filtered_monthly of the Individual Dashboard
FilterIndividual ==
    /\ pc = "individual_filter"
    /\ filtered_monthly' = individual_monthly(df_monthly, selected_article, selected_month)
    /\ pc' = "individual_breakdown"
    /\ UNCHANGED <<page_selection, raw_main, raw_monthly, df, df_monthly,
                   messages, uncaught, selected_article, selected_month,
                   filtered_df, present_absent, salary_trend, pie_df, raw_daily,
                   parsed_daily, daily_df, date_range, selected_staff>>
    /\ UNCHANGED cache_vars

\* Attendance Breakdown of the Individual Dashboard
AttendanceBreakdown ==
    /\ pc = "individual_breakdown"
    /\ pie_df' = IF ~IsEmpty(filtered_monthly) /\ selected_month # All
                 THEN pie_breakdown(filtered_monthly) ELSE pie_df
    /\ pc' = "individual_done"
    /\ UNCHANGED <<page_selection, raw_main, raw_monthly, df, df_monthly,
                   messages, uncaught, selected_article, selected_month,
                   filtered_df, filtered_monthly, present_absent, salary_trend,
                   raw_daily, parsed_daily, daily_df, date_range, selected_staff>>
    /\ UNCHANGED cache_vars

NextBreakdown ==
    \/ SelectIndividual
    \/ FilterIndividual
    \/ AttendanceBreakdown

SpecBreakdown == InitBreakdown /\ [][NextBreakdown]_vars

(* ---------------------- the script with its caches --------------------- *)
\* The script run again and again while time passes, the three loader calls
\* going through st.cache_data.
CacheAnnualSheets ==
    {FrameOf(AnnualColumns, r) :
        r \in SeqsUpTo({AnnualRow(T("Ravi"), Num(5), Num(1), T("Defaulter"))},
                       MaxCacheRows)}

CacheMonthlySheets ==
    {FrameOf(MonthlyColumns, r) :
        r \in SeqsUpTo({MonthlyRow(T("Ravi"), T("Jan"), Num(20), Num(5), Num(31), Num(100))},
                       MaxCacheRows)}

CacheDailySheets ==
    {FrameOf(DailyColumns, r) :
        r \in SeqsUpTo({DailyRow(Str(DateText("3", "1", "0", "1")), T("Asha"), Num(8))},
                       MaxCacheRows)}

\* df = load_sheet_data(gc, MAIN_SHEET_KEY, "Main"), through its cache
CachedLoadMain ==
    /\ pc = "load_main"
    /\ \E fetched \in CacheAnnualSheets \cup {Raised} :
         LET computed == load_sheet_data(fetched, "Main")
             call == cached_call(cache[KEY_Main], MAIN_TTL, now, computed)
         IN /\ raw_main' = IF call.ran THEN fetched ELSE NoneValue
            /\ df' = call.result.value
            /\ messages' = messages \cup call.result.shown
            /\ cache' = [cache EXCEPT ![KEY_Main] = call.entry]
            /\ epoch' = IF call.ran
                        THEN [epoch EXCEPT ![KEY_Main] =
                                 EpochAfterFetch(epoch[KEY_Main], MAIN_TTL, now, computed)]
                        ELSE epoch
    /\ pc' = "load_monthly"
    /\ UNCHANGED <<page_selection, raw_monthly, df_monthly, uncaught,
                   selected_article, selected_month, filtered_df,
                   filtered_monthly, present_absent, salary_trend, pie_df,
                   raw_daily, parsed_daily, daily_df, date_range, selected_staff,
                   now>>

\* df_monthly = load_sheet_data(gc, MAIN_SHEET_KEY, "pdftosheet"), through its cache
CachedLoadMonthly ==
    /\ pc = "load_monthly"
    /\ \E fetched \in CacheMonthlySheets \cup {Raised} :
         LET computed == load_sheet_data(fetched, "pdftosheet")
             call == cached_call(cache[KEY_Monthly], MAIN_TTL, now, computed)
         IN /\ raw_monthly' = IF call.ran THEN fetched ELSE NoneValue
            /\ df_monthly' = call.result.value
            /\ messages' = messages \cup call.result.shown
            /\ cache' = [cache EXCEPT ![KEY_Monthly] = call.entry]
            /\ epoch' = IF call.ran
                        THEN [epoch EXCEPT ![KEY_Monthly] =
                                 EpochAfterFetch(epoch[KEY_Monthly], MAIN_TTL, now, computed)]
                        ELSE epoch
    /\ pc' = "clean"
    /\ UNCHANGED <<page_selection, raw_main, df, uncaught,
                   selected_article, selected_month, filtered_df,
                   filtered_monthly, present_absent, salary_trend, pie_df,
                   raw_daily, parsed_daily, daily_df, date_range, selected_staff,
                   now>>

\* daily_df = load_daily_data(gc, DAILY_SHEET_KEY, selected_sheet), through its cache
CachedLoadDaily ==
    /\ pc = "daily_load"
    /\ \E fetched \in CacheDailySheets \cup {Raised} :
         LET computed == load_daily_data(fetched)
             call == cached_call(cache[KEY_Daily], DAILY_TTL, now, computed)
         IN /\ raw_daily' = IF call.ran THEN fetched ELSE NoneValue
            /\ daily_df' = call.result.value
            /\ messages' = messages \cup call.result.shown
            /\ cache' = [cache EXCEPT ![KEY_Daily] = call.entry]
            /\ epoch' = IF call.ran
                        THEN [epoch EXCEPT ![KEY_Daily] =
                                 EpochAfterFetch(epoch[KEY_Daily], DAILY_TTL, now, computed)]
                        ELSE epoch
    /\ pc' = "daily_process"
    /\ UNCHANGED <<page_selection, raw_main, raw_monthly, df, df_monthly,
                   uncaught, selected_article, selected_month, filtered_df,
                   filtered_monthly, present_absent, salary_trend, pie_df,
                   parsed_daily, date_range, selected_staff, now>>

\* five minutes pass between two page events
Tick ==
    /\ pc \in {"done", "crashed"}
    /\ now < MaxTicks
    /\ now' = now + 1
    /\ UNCHANGED <<pc, page_selection, raw_main, raw_monthly, df, df_monthly,
                   messages, uncaught, selected_article, selected_month,
                   filtered_df, filtered_monthly, present_absent, salary_trend,
                   pie_df, raw_daily, parsed_daily, daily_df, date_range,
                   selected_staff, cache, epoch>>

NextCache ==
    \/ CachedLoadMain
    \/ CachedLoadMonthly
    \/ ApplyCleaning
    \/ Navigate
    \/ MainDashboard
    \/ MonthlyData
    \/ IndividualDashboard
    \/ DailyOpen
    \/ CachedLoadDaily
    \/ DailyProcess
    \/ DailyRender
    \/ DebugInfo
    \/ Rerun
    \/ Tick

SpecCache == Init /\ [][NextCache]_vars

(* ------------------------------- claims -------------------------------- *)
\* the 'apply cleaning' step of this run is behind us
Cleaned == pc \notin {"load_main", "load_monthly", "clean"}

PageRan(p) == page_selection = p /\ pc \in {"debug", "done", "crashed"}

\* the table load_sheet_data returned for a fetched sheet
Loaded(fetched, worksheet_name) == load_sheet_data(fetched, worksheet_name).value

NumericAndNonNegative(d, cols) ==
    \A i \in 1..Len(d.rows) : \A c \in cols \cap d.columns :
        d.rows[i][c].t = "num" /\ d.rows[i][c].n >= 0

\* C1: for every non-empty annual sheet, the value assigned to the annual table
\* by the 'apply cleaning' step is the cleaned table (never None): its numeric
\* columns are numbers and its Name is trimmed.
C1_CleaningReturnsTheTable ==
    (Cleaned /\ raw_main.kind = "DataFrame" /\ ~IsEmpty(raw_main)) =>
        /\ df.kind = "DataFrame"
        /\ df = main_cleaned(Loaded(raw_main, "Main"))
        /\ \A i \in 1..Len(df.rows) :
              /\ df.rows[i][COL_Name].s = strip(df.rows[i][COL_Name].s)
              /\ \A c \in MainNumericCols \cap df.columns : df.rows[i][c].t = "num"

\* C2: when a fetch fails the run substitutes an empty table and shows a
\* message, and no page ends in an uncaught failure: not the pages that build
\* their select lists from the substituted empty table, and not the daily page
\* when it opens the daily spreadsheet.
C2_FetchFailureIsContained ==
    /\ (raw_main.kind = "Raise" /\ pc = "load_monthly") =>
          (df = EmptyFrame /\ Message("error", "Main") \in messages)
    /\ (raw_monthly.kind = "Raise" /\ pc = "clean") =>
          (df_monthly = EmptyFrame /\ Message("error", "pdftosheet") \in messages)
    /\ (raw_daily.kind = "Raise" /\ pc = "daily_process") =>
          (daily_df = EmptyFrame /\ Message("error", "daily data") \in messages)
    /\ ( /\ raw_main.kind = "Raise"
         /\ PageRan("Main Dashboard") \/ PageRan("Individual Dashboard") ) =>
          uncaught # "KeyError"
    /\ (raw_monthly.kind = "Raise" /\ PageRan("Monthly Data")) =>
          uncaught # "KeyError"
    /\ uncaught # "APIError"

\* C3: after cleaning, every value of every declared numeric column of the
\* annual and of the monthly table is a number and is >= 0.
C3_NumericColumnsNonNegative ==
    Cleaned =>
        /\ df.kind = "DataFrame" => NumericAndNonNegative(df, MainNumericCols)
        /\ df_monthly.kind = "DataFrame" =>
              NumericAndNonNegative(df_monthly, MonthlyNumericCols)

\* the Name a raw row has once it is text and trimmed
TrimmedName(r) == StripText(r[COL_Name]).s

\* C4: after cleaning, no row has a Name that is empty or "nan": the rows whose
\* Name is empty, blank or trims to "nan" are dropped, the others kept in order.
C4_NoBlankIdentity ==
    (Cleaned /\ Subscriptable(df_monthly, COL_Name)) =>
        /\ \A i \in 1..Len(df_monthly.rows) :
              df_monthly.rows[i][COL_Name].s \notin {<<>>, NanText}
        /\ Len(df_monthly.rows) =
              Len(SelectRows(raw_monthly.rows,
                             [i \in 1..Len(raw_monthly.rows) |->
                                 TrimmedName(raw_monthly.rows[i]) \notin {<<>>, NanText}]))

\* C5: cleaning is idempotent for both cleaning functions: cleaning the cleaned
\* annual table and the cleaned monthly table gives the same tables again.
C5_CleanIsIdempotent ==
    Cleaned =>
        /\ clean_monthly_data(df_monthly) = df_monthly
        /\ clean_main_data(df) = df

\* the rows of a table that satisfy the selected name and month
Conjunction(d, article, month) ==
    SelectRows(d.rows,
               [i \in 1..Len(d.rows) |->
                   /\ article = All \/ d.rows[i][COL_Name].s = article
                   /\ month = All \/ d.rows[i][COL_Month].s = month])

\* C6: the filtered view is exactly the rows that satisfy all selected
\* predicates, in order, "All" meaning no restriction: on the Main and the
\* Individual page the annual view is the cleaned annual table filtered by name,
\* on the Individual page the monthly view is filtered by name and month, and
\* no selection ends in an error.
C6_ViewIsConjunctionOfPredicates ==
    LET annual == main_cleaned(Loaded(raw_main, "Main")) IN
    /\ ( /\ PageRan("Main Dashboard") \/ PageRan("Individual Dashboard")
         /\ raw_main.kind = "DataFrame" /\ ~IsEmpty(raw_main)
         /\ raw_monthly.kind = "DataFrame" /\ ~IsEmpty(raw_monthly) ) =>
            /\ uncaught \notin {"TypeError", "KeyError"}
            /\ filtered_df.kind = "DataFrame"
            /\ filtered_df.rows = Conjunction(annual, selected_article, All)
    /\ ( /\ PageRan("Individual Dashboard")
         /\ raw_main.kind = "DataFrame" /\ ~IsEmpty(raw_main)
         /\ raw_monthly.kind = "DataFrame" /\ ~IsEmpty(raw_monthly) ) =>
            /\ filtered_monthly.kind = "DataFrame"
            /\ filtered_monthly.rows =
                  Conjunction(df_monthly, selected_article, selected_month)

\* the rows of a daily table without their hours
Undated(d) == DropColumn(d, COL_Hours).rows

DateFiltered ==
    /\ pc = "daily_render"
    /\ parsed_daily.kind = "DataFrame" /\ COL_Date \in parsed_daily.columns
    /\ selected_staff = All

\* C7: the date-range filter keeps exactly the rows whose calendar day d has
\* start <= d <= end, whatever their time of day; with a single bound no date
\* filter is applied.
C7_DateRangeInclusiveByDay ==
    DateFiltered =>
        /\ Len(date_range) = 2 =>
              Undated(daily_df) =
                 Undated(Mask(parsed_daily,
                              [i \in 1..Len(parsed_daily.rows) |->
                                  /\ date_range[1] <= DateOf(parsed_daily.rows[i][COL_Date])
                                  /\ DateOf(parsed_daily.rows[i][COL_Date]) <= date_range[2]]))
        /\ Len(date_range) = 1 => Undated(daily_df) = Undated(parsed_daily)

\* the distinct group keys of a table in the order of their first row
RECURSIVE FirstSeen(_, _, _)
FirstSeen(rows, keycols, seen) ==
    IF rows = <<>> THEN <<>>
    ELSE LET k == KeyOf(Head(rows), keycols) IN
         IF k \in seen THEN FirstSeen(Tail(rows), keycols, seen)
         ELSE <<k>> \o FirstSeen(Tail(rows), keycols, seen \cup {k})

GroupSumFirstSeen(result, d, keycols, valcols) ==
    LET order == FirstSeen(d.rows, keycols, {}) IN
    /\ Len(result.rows) = Len(order)
    /\ \A g \in 1..Len(order) :
          /\ result.rows[g].key = order[g]
          /\ \A v \in 1..Len(valcols) :
                result.rows[g].sums[v] =
                   ColumnSum(Mask(d, [i \in 1..Len(d.rows) |->
                                         KeyOf(d.rows[i], keycols) = order[g]]),
                             valcols[v])

\* C8: groupSum returns one row per distinct group key of the view, carrying the
\* sum of the value column over the group, in first-seen group order, for the
\* by-Name grouping of the main page and the by-(Month, Name) salary grouping.
C8_GroupSumFirstSeenOrder ==
    /\ salary_trend.computed =>
          GroupSumFirstSeen(salary_trend, df_monthly, <<COL_Month, COL_Name>>,
                            <<COL_Salary>>)
    /\ present_absent.computed =>
          GroupSumFirstSeen(present_absent, filtered_df, <<COL_Name>>,
                            <<COL_SumPayable, COL_UpdatedAbsent>>)

Max0(x) == IF x > 0 THEN x ELSE 0

\* C9: the 'Other Days' value of the single-month breakdown is never negative:
\* it is max(0, sum(Days in Month) - (sum(Payable Days) + sum(Absent Days))) of
\* the filtered monthly view, and the Payable and Absent values are the sums
\* themselves when those are non-negative.
C9_ResidualNeverNegative ==
    pie_df.computed =>
        LET payable == ColumnSum(filtered_monthly, COL_Payable)
            absent == ColumnSum(filtered_monthly, COL_Absent)
            days == ColumnSum(filtered_monthly, COL_DaysInMonth)
        IN /\ pie_df.rows[3].Category = "Other Days"
           /\ pie_df.rows[3].Count >= 0
           /\ pie_df.rows[3].Count = Max0(days - (payable + absent))
           /\ payable >= 0 => pie_df.rows[1].Count = payable
           /\ absent >= 0 => pie_df.rows[2].Count = absent

\* C9 witness: a breakdown was computed for a view whose payable and absent days
\* exceed its days in month, and 'Other Days' is 0.
C9_ClampedBreakdownReached ==
    /\ pie_df.computed
    /\ ColumnSum(filtered_monthly, COL_DaysInMonth)
          < ColumnSum(filtered_monthly, COL_Payable)
            + ColumnSum(filtered_monthly, COL_Absent)
    /\ pie_df.rows[3].Count = 0
    /\ pie_df.rows[1].Count > 0

\* no row was filtered away between the parsed and the final daily table
HoursOfEveryRow ==
    /\ pc = "daily_render"
    /\ parsed_daily.kind = "DataFrame" /\ COL_Hours \in parsed_daily.columns
    /\ selected_staff = All
    /\ Len(date_range) # 2

\* C10: Hours Worked is parsed as a number, also when it arrives as text, and is
\* 0 only when it cannot be parsed; every result is a number >= 0.
C10_HoursParsedFromText ==
    HoursOfEveryRow =>
        /\ Len(daily_df.rows) = Len(parsed_daily.rows)
        /\ \A i \in 1..Len(daily_df.rows) :
              /\ daily_df.rows[i][COL_Hours] =
                    fillna(to_numeric(parsed_daily.rows[i][COL_Hours]), 0)
              /\ daily_df.rows[i][COL_Hours].n >= 0

\* a failed fetch is what the epoch of a key started with
EpochFailed(k) == \E m \in epoch[k].result.shown : m.level = "error"

\* C11: within one cache epoch the fetch of a key runs at most once whatever its
\* outcome: a failed fetch is returned as an empty table and stored like any
\* result, every later page event of the epoch is served that table without a
\* new fetch, and a fetch runs again only once the entry has expired (3600 s
\* for the annual and monthly loader, 600 s for the daily loader).
C11_OneFetchPerEpoch ==
    /\ \A k \in CacheKeys : epoch[k].fetches <= 1
    /\ pc = "load_monthly" =>
          /\ df = epoch[KEY_Main].result.value
          /\ Seconds(now - epoch[KEY_Main].start) < MAIN_TTL
          /\ EpochFailed(KEY_Main) => df = EmptyFrame
          /\ raw_main # NoneValue => epoch[KEY_Main].start = now
    /\ pc = "clean" =>
          /\ df_monthly = epoch[KEY_Monthly].result.value
          /\ Seconds(now - epoch[KEY_Monthly].start) < MAIN_TTL
          /\ EpochFailed(KEY_Monthly) => df_monthly = EmptyFrame
          /\ raw_monthly # NoneValue => epoch[KEY_Monthly].start = now
    /\ pc = "daily_process" =>
          /\ daily_df = epoch[KEY_Daily].result.value
          /\ Seconds(now - epoch[KEY_Daily].start) < DAILY_TTL
          /\ EpochFailed(KEY_Daily) => daily_df = EmptyFrame
          /\ raw_daily # NoneValue => epoch[KEY_Daily].start = now

\* C11 witness: a page event later in the epoch of a failed annual fetch has
\* just been served the empty table, with its error message, and no fetch ran.
C11_FailureServedFromCache ==
    /\ pc = "load_monthly"
    /\ raw_main = NoneValue
    /\ EpochFailed(KEY_Main)
    /\ epoch[KEY_Main].fetches = 1
    /\ now > epoch[KEY_Main].start
    /\ df = EmptyFrame
    /\ Message("error", "Main") \in messages

====
